---------------------------- MODULE Spec2Model ----------------------------
(***************************************************************************)
(* Terms-Analyzer: the result cache (StorageService), the background       *)
(* analysis handler (AIProcessor / handleAnalysisRequest) with its reply   *)
(* parser, the network status monitor (NetworkManager) and the content     *)
(* script's detector (TermsDetector), as state machines.                   *)
(*                                                                         *)
(* Optional values (null / undefined in the source) are sequences of       *)
(* length at most one: <<>> is null, <<v>> is the value v.                 *)
(***************************************************************************)
EXTENDS Integers, Sequences, FiniteSets, TLC

(***************************************************************************)
(* Bounds of the model and the inputs the operations are called with.      *)
(***************************************************************************)
MaxPuts == 2
MaxTicks == 2
\* Analysis requests whose remote call is outstanding at one time.
MaxInFlight == 2
\* Tokens of a raw reply text.
MaxTextLen == 5
\* Entries of the listener registry.
MaxListeners == 3
\* Elements the modal selectors match on a page, and elements the content
\* selectors match.
MaxElements == 2
MaxCalls == 2

UrlOrder == <<"u1", "u2">>
Urls == {UrlOrder[i] : i \in 1..Len(UrlOrder)}
Languages == {"en", "hi"}
Contents == {"c1"}
\* The result handed to the n-th cacheAnalysis call.  The service only copies
\* results, so giving every call a result of its own loses no behaviour and
\* tells the calls apart.
NthResult(n) == n

\* 24 * 60 * 60 * 1000 ms, the cache validity window.
day == 24 * 60 * 60 * 1000
\* Amounts by which Date.now() moves between two steps.
ClockSteps == {1, day}

VARIABLES
    now,        \* Date.now()
    ticks,      \* number of clock advances so far (bounded by MaxTicks)
    db,         \* StorageService.db: FALSE is null, TRUE is the opened database
    analyses,   \* the object store 'analyses': url -> CachedAnalysis (keyPath 'url')
    sweep,      \* the running clearOldCache call: its position, `all` and loop index
    puts,       \* observation: the last cacheAnalysis call per (url, language)
    nPuts,      \* number of cacheAnalysis calls so far (bounded by MaxPuts)
    lastGet,    \* observation: the getCachedAnalysis call that has just returned
    lastDelete, \* observation: the delete clearOldCache has just performed
    lastSweep   \* observation: the clearOldCache call that has just returned

cacheVars == <<now, ticks, db, analyses, sweep, puts, nPuts, lastGet, lastDelete, lastSweep>>

VARIABLES
    isOnline,   \* NetworkManager.isOnline
    listeners,  \* NetworkManager.listeners
    notified,   \* observation: the listener calls notifyListeners has just made
    lastCall,   \* observation: the NetworkManager method that has just returned
    instance    \* NetworkManager.instance: FALSE is undefined, TRUE the instance

netVars == <<isOnline, listeners, notified, lastCall, instance>>

VARIABLES
    apiKey,     \* AIProcessor.apiKey
    inFlight,   \* the handleAnalysisRequest calls suspended at their fetch, oldest first
    lastDone    \* observation: the step the listener or handleAnalysisRequest
                \* has just made

bgVars == <<apiKey, inFlight, lastDone>>

VARIABLES
    aiResponse, \* the string parseAIResponse is called with
    parseOut    \* observation: the parseAIResponse call that has returned

parserVars == <<aiResponse, parseOut>>

VARIABLES
    document,    \* the document the content script runs in
    detectOut,   \* observation: the message the content script's listener has handled
    elementText, \* the text extractTextContent gives analyzeElement
    analyzeOut   \* observation: the analyzeElement call that has returned

detectorVars == <<document, detectOut, elementText, analyzeOut>>

VARIABLES
    termsData,      \* Popup: termsData.content, <<>> when there is none, else <<length>>
    isAnalyzing,    \* Popup: isAnalyzing
    analysisResult, \* Popup: analysisResult, <<>> when null or undefined
    error,          \* Popup: error, <<>> when null
    analyzing,      \* the handleAnalyze calls suspended at an await, oldest first
    lastAnalyze     \* observation: the step handleAnalyze has just made

popupVars == <<termsData, isAnalyzing, analysisResult, error, analyzing, lastAnalyze>>

vars == <<cacheVars, netVars, bgVars, parserVars, detectorVars, popupVars>>

(***************************************************************************)
(* StorageService                                                          *)
(***************************************************************************)

\* The CachedAnalysis record cacheAnalysis builds.
CacheEntry(url, content, result, language, t) ==
    [url |-> url, content |-> content, result |-> result,
     timestamp |-> t, language |-> language]

\* Mutant of StorePut: db.add in place of db.put, which leaves a record already
\* stored under the url in place.
StorePut_Add(store, entry) ==
    IF entry.url \in DOMAIN store THEN store
    ELSE [k \in DOMAIN store \cup {entry.url} |->
            IF k = entry.url THEN entry ELSE store[k]]

\* db.put on an object store with keyPath 'url': the record replaces the one
\* stored under the same url, whatever its language.
StorePut(store, entry) ==
    [k \in DOMAIN store \cup {entry.url} |->
        IF k = entry.url THEN entry ELSE store[k]]

\* db.get: the record under the key, or undefined.
StoreGet(store, url) ==
    IF url \in DOMAIN store THEN <<store[url]>> ELSE <<>>

\* db.delete: the record under the key is removed, if any.
StoreDelete(store, url) ==
    [k \in DOMAIN store \ {url} |-> store[k]]

\* db.getAll: every record, in key order.
KeysInOrder(store) == SelectSeq(UrlOrder, LAMBDA u : u \in DOMAIN store)
StoreGetAll(store) ==
    [i \in 1..Len(KeysInOrder(store)) |-> store[KeysInOrder(store)[i]]]

\* Mutant of CachedAnalysisOf: cacheAge >= 24h in place of cacheAge > 24h.
CachedAnalysisOf_AtTtl(entry, language, t) ==
    IF entry = <<>> THEN <<>>
    ELSE IF entry[1].language # language THEN <<>>
    ELSE IF t - entry[1].timestamp >= day THEN <<>>
    ELSE entry

\* getCachedAnalysis, after the read: null when there is no entry, when the
\* entry's language is not the requested one, or when cacheAge > 24h.
CachedAnalysisOf(entry, language, t) ==
    IF entry = <<>> THEN <<>>
    ELSE IF entry[1].language # language THEN <<>>
    ELSE IF t - entry[1].timestamp > day THEN <<>>
    ELSE entry

\* Mutant of IsOld: >= day in place of > day.
IsOld_AtTtl(entry, t) == t - entry.timestamp >= day

\* The test of clearOldCache's loop.
IsOld(entry, t) == t - entry.timestamp > day

NoSweep == [pc |-> "idle", all |-> <<>>, i |-> 1, startStore |-> <<>>,
            startNow |-> 0, putDuring |-> FALSE, afterClean |-> FALSE,
            prevDeleted |-> 0]

\* The clock moves.
Tick(d) ==
    /\ ticks < MaxTicks
    /\ now' = now + d
    /\ ticks' = ticks + 1
    /\ UNCHANGED sweep
    /\ lastGet' = <<>>
    /\ lastDelete' = <<>>
    /\ lastSweep' = <<>>
    /\ UNCHANGED <<db, analyses, puts, nPuts, netVars, bgVars, parserVars, detectorVars,
                   popupVars>>

\* cacheAnalysis(url, content, result, language)
cacheAnalysis(url, content, result, language) ==
    /\ nPuts < MaxPuts
    /\ db' = TRUE
    /\ analyses' = StorePut(analyses, CacheEntry(url, content, result, language, now))
    /\ nPuts' = nPuts + 1
    /\ puts' = [p \in DOMAIN puts \cup {<<url, language>>} |->
                  IF p = <<url, language>>
                  THEN [result |-> result, at |-> now, n |-> nPuts + 1]
                  ELSE puts[p]]
    /\ sweep' = IF sweep.pc = "idle" THEN sweep ELSE [sweep EXCEPT !.putDuring = TRUE]
    /\ lastGet' = <<>>
    /\ lastDelete' = <<>>
    /\ lastSweep' = <<>>
    /\ UNCHANGED <<now, ticks, netVars, bgVars, parserVars, detectorVars, popupVars>>

\* Mutant of getCachedAnalysis: an entry found expired is deleted by the read.
getCachedAnalysis_EvictsExpired(url, language) ==
    /\ db' = TRUE
    /\ analyses' = IF /\ url \in DOMAIN analyses
                      /\ IsOld(analyses[url], now)
                   THEN StoreDelete(analyses, url)
                   ELSE analyses
    /\ lastGet' = << [url |-> url, language |-> language, at |-> now,
                      entry |-> StoreGet(analyses, url),
                      puts |-> puts,
                      ret |-> CachedAnalysisOf(StoreGet(analyses, url), language, now),
                      before |-> analyses, after |-> analyses'] >>
    /\ lastDelete' = <<>>
    /\ lastSweep' = <<>>
    /\ UNCHANGED <<now, ticks, sweep, puts, nPuts, netVars, bgVars, parserVars, detectorVars,
                   popupVars>>

\* getCachedAnalysis(url, language)
getCachedAnalysis(url, language) ==
    /\ db' = TRUE
    /\ analyses' = analyses
    /\ lastGet' = << [url |-> url, language |-> language, at |-> now,
                      entry |-> StoreGet(analyses, url),
                      puts |-> puts,
                      ret |-> CachedAnalysisOf(StoreGet(analyses, url), language, now),
                      before |-> analyses, after |-> analyses'] >>
    /\ lastDelete' = <<>>
    /\ lastSweep' = <<>>
    /\ UNCHANGED <<now, ticks, sweep, puts, nPuts, netVars, bgVars, parserVars, detectorVars,
                   popupVars>>

\* A clearOldCache call that has just returned and ran with no cacheAnalysis
\* call and no move of the clock between its getAll and its return.
CleanSweep(ls) ==
    /\ ls # <<>>
    /\ ~ls[1].putDuring
    /\ ls[1].startNow = ls[1].endNow

\* clearOldCache, up to the result of getAll.
clearOldCacheScan ==
    /\ sweep.pc = "idle"
    /\ db' = TRUE
    /\ sweep' = [pc |-> "loop", all |-> StoreGetAll(analyses), i |-> 1,
                 startStore |-> analyses, startNow |-> now,
                 putDuring |-> FALSE,
                 afterClean |-> CleanSweep(lastSweep),
                 prevDeleted |-> IF CleanSweep(lastSweep)
                                 THEN Cardinality(DOMAIN lastSweep[1].startStore
                                                  \ DOMAIN lastSweep[1].endStore)
                                 ELSE 0]
    /\ lastGet' = <<>>
    /\ lastDelete' = <<>>
    /\ lastSweep' = <<>>
    /\ UNCHANGED <<now, ticks, analyses, puts, nPuts, netVars, bgVars, parserVars, detectorVars,
                   popupVars>>

\* The index of the first entry of `all`, from i on, the loop's test selects;
\* Len(all) + 1 when there is none.
RECURSIVE NextOld(_, _, _)
NextOld(all, i, t) ==
    IF i > Len(all) THEN i
    ELSE IF IsOld(all[i], t) THEN i
    ELSE NextOld(all, i + 1, t)

\* clearOldCache's loop up to its next await: the entries the test passes
\* over are skipped without yielding, the first old one is deleted by its url.
clearOldCacheDelete ==
    /\ sweep.pc = "loop"
    /\ NextOld(sweep.all, sweep.i, now) <= Len(sweep.all)
    /\ LET j == NextOld(sweep.all, sweep.i, now)
           url == sweep.all[j].url
       IN /\ analyses' = StoreDelete(analyses, url)
          /\ lastDelete' = << [url |-> url, removed |-> StoreGet(analyses, url),
                               at |-> now] >>
          /\ sweep' = [sweep EXCEPT !.i = j + 1]
    /\ lastGet' = <<>>
    /\ lastSweep' = <<>>
    /\ UNCHANGED <<now, ticks, db, puts, nPuts, netVars, bgVars, parserVars, detectorVars,
                   popupVars>>

\* clearOldCache's loop runs off the end of `all`: the call returns.
clearOldCacheReturn ==
    /\ sweep.pc = "loop"
    /\ NextOld(sweep.all, sweep.i, now) > Len(sweep.all)
    /\ lastSweep' = << [startStore |-> sweep.startStore, startNow |-> sweep.startNow,
                        endStore |-> analyses, endNow |-> now,
                        putDuring |-> sweep.putDuring,
                        afterClean |-> sweep.afterClean,
                        prevDeleted |-> sweep.prevDeleted] >>
    /\ sweep' = NoSweep
    /\ lastGet' = <<>>
    /\ lastDelete' = <<>>
    /\ UNCHANGED <<now, ticks, db, analyses, puts, nPuts, netVars, bgVars, parserVars, detectorVars,
                   popupVars>>

InitCache ==
    /\ now = 0
    /\ ticks = 0
    /\ db = FALSE
    /\ analyses = <<>>
    /\ sweep = NoSweep
    /\ puts = <<>>
    /\ nPuts = 0
    /\ lastGet = <<>>
    /\ lastDelete = <<>>
    /\ lastSweep = <<>>


(***************************************************************************)
(* AIProcessor: the pure steps                                             *)
(*                                                                         *)
(* A text is a sequence of tokens.  "{" and "}" are the two braces, "x" is *)
(* any other character, and a member token such as "r:high" stands for one *)
(* well-formed member of a JSON object (the key, the value and the         *)
(* separators around them, none of them a brace).  A terms text is given   *)
(* by its length alone.                                                    *)
(***************************************************************************)

Min(a, b) == IF a < b THEN a ELSE b

\* The keys GEMINI_API_KEY can hold: none, the placeholder of the template,
\* a real key.
MissingKey == ""
PlaceholderKey == "ABC123-placeholder"
RealKey == "AIza-real"
ApiKeys == {MissingKey, PlaceholderKey, RealKey}

\* this.apiKey.includes('ABC123'), which the constructor tests before it logs.
IsPlaceholder(key) == key = PlaceholderKey

\* buildPrompt: the language instruction (English for an unknown code) and
\* the first 3000 characters of the terms.
LanguageInstruction(language) ==
    CASE language = "en" -> "Provide the response in English."
      [] language = "hi" -> "Provide the response in Hindi."
      [] language = "ta" -> "Provide the response in Tamil."
      [] OTHER -> "Provide the response in English."
BuildPrompt(termsLen, language) ==
    [instruction |-> LanguageInstruction(language), terms |-> Min(termsLen, 3000)]

Positions(text, tok) == {i \in 1..Len(text) : text[i] = tok}
SetMin(S) == CHOOSE i \in S : \A j \in S : i <= j
SetMax(S) == CHOOSE i \in S : \A j \in S : j <= i

\* Mutant of JsonMatch: the match stops at the first "}" after the first "{"
\* (the pattern with a lazy quantifier).
JsonMatch_Lazy(text) ==
    IF /\ Positions(text, "{") # {}
       /\ \E j \in Positions(text, "}") : SetMin(Positions(text, "{")) < j
    THEN << SubSeq(text, SetMin(Positions(text, "{")),
                   SetMin({j \in Positions(text, "}") :
                              SetMin(Positions(text, "{")) < j})) >>
    ELSE <<>>

\* aiResponse.match(/\{[\s\S]*\}/): from the first "{" to the last "}" after
\* it; <<>> when there is no such pair.
JsonMatch(text) ==
    IF /\ Positions(text, "{") # {}
       /\ Positions(text, "}") # {}
       /\ SetMin(Positions(text, "{")) < SetMax(Positions(text, "}"))
    THEN << SubSeq(text, SetMin(Positions(text, "{")), SetMax(Positions(text, "}"))) >>
    ELSE <<>>

\* The members a JSON object of a reply is written with: the key and the
\* decoded value of each member token.
MemberTokens == {"s:ok", "s:", "r:high", "r:low", "r:HIGH",
                 "k:[2]", "k:[9]", "k:str", "f:[0]", "f:[6]", "f:str"}
Items == <<"i1", "i2", "i3", "i4", "i5", "i6", "i7", "i8", "i9">>
MemberKey(tok) ==
    CASE tok \in {"s:ok", "s:"} -> "summary"
      [] tok \in {"r:high", "r:low", "r:HIGH"} -> "riskLevel"
      [] tok \in {"k:[2]", "k:[9]", "k:str"} -> "keyPoints"
      [] tok \in {"f:[0]", "f:[6]", "f:str"} -> "redFlags"
MemberValue(tok) ==
    CASE tok = "s:ok" -> [isArray |-> FALSE, text |-> <<"o", "k">>, items |-> <<>>]
      [] tok = "s:" -> [isArray |-> FALSE, text |-> <<>>, items |-> <<>>]
      [] tok = "r:high" -> [isArray |-> FALSE, text |-> <<"high">>, items |-> <<>>]
      [] tok = "r:low" -> [isArray |-> FALSE, text |-> <<"low">>, items |-> <<>>]
      [] tok = "r:HIGH" -> [isArray |-> FALSE, text |-> <<"HIGH">>, items |-> <<>>]
      [] tok = "k:[2]" -> [isArray |-> TRUE, text |-> <<>>, items |-> SubSeq(Items, 1, 2)]
      [] tok = "k:[9]" -> [isArray |-> TRUE, text |-> <<>>, items |-> SubSeq(Items, 1, 9)]
      [] tok = "k:str" -> [isArray |-> FALSE, text |-> <<"x">>, items |-> <<>>]
      [] tok = "f:[0]" -> [isArray |-> TRUE, text |-> <<>>, items |-> <<>>]
      [] tok = "f:[6]" -> [isArray |-> TRUE, text |-> <<>>, items |-> SubSeq(Items, 1, 6)]
      [] tok = "f:str" -> [isArray |-> FALSE, text |-> <<"x">>, items |-> <<>>]

\* JSON.parse of the matched substring: it decodes when it is an object, "{",
\* members, "}", and throws on anything else.  A member is a member token, or
\* "n:" (a key the result does not use) followed by an object.  Of two
\* members with one key the later one stands.  The value maps each key the
\* result uses to its decoded value.
RECURSIVE IsMembers(_)
IsMembers(m) ==
    \/ m = <<>>
    \/ /\ m[1] \in MemberTokens
       /\ IsMembers(Tail(m))
    \/ /\ m[1] = "n:"
       /\ Len(m) >= 3
       /\ m[2] = "{"
       /\ \E j \in 3..Len(m) :
             /\ m[j] = "}"
             /\ IsMembers(SubSeq(m, 3, j - 1))
             /\ IsMembers(SubSeq(m, j + 1, Len(m)))
JsonDecodes(s) ==
    /\ Len(s) >= 2
    /\ s[1] = "{"
    /\ s[Len(s)] = "}"
    /\ IsMembers(SubSeq(s, 2, Len(s) - 1))
\* The members of the object itself, not of an object nested in it.
TopLevel(s) ==
    {i \in 2..(Len(s) - 1) :
        /\ s[i] \in MemberTokens
        /\ Cardinality({j \in 2..(i - 1) : s[j] = "{"})
             = Cardinality({j \in 2..(i - 1) : s[j] = "}"})}
JsonParse(s) ==
    LET keys == {MemberKey(s[i]) : i \in TopLevel(s)}
        last(k) == SetMax({i \in TopLevel(s) : MemberKey(s[i]) = k})
    IN [k \in keys |-> MemberValue(s[last(k)])]

\* The degraded result of parseAIResponse.
DegradedResult(text) ==
    [summary |-> SubSeq(text, 1, Min(Len(text), 1000)),
     riskLevel |-> "medium",
     keyPoints |-> <<"Analysis completed - see summary for details">>,
     redFlags |-> <<>>]

\* Mutant of NormalisedResult: the decoded riskLevel and lists are passed on
\* as they are.
NormalisedResult_Unchecked(parsed) ==
    [summary |->
        IF "summary" \in DOMAIN parsed /\ parsed["summary"].text # <<>>
        THEN parsed["summary"].text ELSE <<"Analysis completed">>,
     riskLevel |->
        IF "riskLevel" \in DOMAIN parsed /\ parsed["riskLevel"].text # <<>>
        THEN parsed["riskLevel"].text[1] ELSE "medium",
     keyPoints |->
        IF "keyPoints" \in DOMAIN parsed /\ parsed["keyPoints"].isArray
        THEN parsed["keyPoints"].items ELSE <<"Analysis completed">>,
     redFlags |->
        IF "redFlags" \in DOMAIN parsed /\ parsed["redFlags"].isArray
        THEN parsed["redFlags"].items ELSE <<>>]

\* The normalised fields of a decoded object.
NormalisedResult(parsed) ==
    [summary |->
        IF "summary" \in DOMAIN parsed /\ parsed["summary"].text # <<>>
        THEN parsed["summary"].text ELSE <<"Analysis completed">>,
     riskLevel |->
        IF /\ "riskLevel" \in DOMAIN parsed
           /\ parsed["riskLevel"].text \in {<<"low">>, <<"medium">>, <<"high">>}
        THEN parsed["riskLevel"].text[1] ELSE "medium",
     keyPoints |->
        IF "keyPoints" \in DOMAIN parsed /\ parsed["keyPoints"].isArray
        THEN SubSeq(parsed["keyPoints"].items, 1, Min(Len(parsed["keyPoints"].items), 8))
        ELSE <<"Analysis completed">>,
     redFlags |->
        IF "redFlags" \in DOMAIN parsed /\ parsed["redFlags"].isArray
        THEN SubSeq(parsed["redFlags"].items, 1, Min(Len(parsed["redFlags"].items), 5))
        ELSE <<>>]

\* parseAIResponse(aiResponse), aiResponse a string.
ParseAIResponse(text) ==
    IF JsonMatch(text) # <<>> /\ JsonDecodes(JsonMatch(text)[1])
    THEN NormalisedResult(JsonParse(JsonMatch(text)[1]))
    ELSE DegradedResult(text)

\* The texts a reply of the remote call carries at parts[0].text.
RawTexts == { <<"x", "x">>,
              <<"x", "{", "s:ok", "r:high", "k:[2]", "f:[0]", "}", "x">>,
              <<"{", "x", "}">> }

\* The strings parseAIResponse is called with here: every text of up to
\* MaxTextLen tokens over the braces, another character and some members,
\* every object of one member, the replies of the remote call, and a text
\* of more than 1000 characters.
ReplyTokens == {"{", "}", "x", "n:", "r:low", "r:HIGH", "k:[9]", "f:[6]"}
LongText == [i \in 1..1001 |-> "x"]
NestedTexts == { <<"x", "}", "{", "n:", "{", "k:[9]", "}", "r:low", "}", "{", "x">>,
                 <<"{", "n:", "{", "n:", "{", "}", "}", "k:[2]", "}">>,
                 <<"{", "n:", "{", "}", "}", "}">> }
RawReplies ==
    UNION {[1..k -> ReplyTokens] : k \in 0..MaxTextLen}
    \cup {<<"{", m, "}">> : m \in MemberTokens}
    \cup RawTexts
    \cup NestedTexts
    \cup {LongText}

\* A call parseAIResponse(aiResponse): the substring its match hands to
\* JSON.parse (none when there is no match), and the result it returns.
parseAIResponse ==
    /\ parseOut = <<>>
    /\ parseOut' = << [match |-> JsonMatch(aiResponse),
                       result |-> ParseAIResponse(aiResponse)] >>
    /\ UNCHANGED <<aiResponse, cacheVars, netVars, bgVars, detectorVars, popupVars>>

(***************************************************************************)
(* The background service worker: the onMessage listener and               *)
(* handleAnalysisRequest                                                   *)
(***************************************************************************)

\* The messages the listener is sent.  content is <<>> when the message
\* carries none, and <<n>> for a string of n characters.
MessageContents == {<<>>, <<0>>, <<99>>, <<100>>}
Messages ==
    [action : {"analyzeTerms"}, content : MessageContents,
     language : Languages, url : Urls]
    \cup [action : {"getCachedAnalysis"}, content : {<<>>},
          language : Languages, url : Urls]

\* What the remote call can come to: fetch rejects, or resolves with a status
\* and a body.  The body is no JSON, or JSON that stops short somewhere on the
\* path candidates[0].content.parts[0].text, or JSON that holds a text there.
ShortBodies == {"notJson", "noCandidates", "emptyCandidates", "noContent",
                "noParts", "emptyParts", "noText"}
FetchOutcomes ==
    { [kind |-> "reject", status |-> 0, body |-> "none", text |-> <<>>] }
    \cup [kind : {"response"}, status : {200}, body : ShortBodies, text : {<<>>}]
    \cup [kind : {"response"}, status : {200, 500}, body : {"text"}, text : RawTexts]
    \cup [kind : {"response"}, status : {500}, body : {"noCandidates"}, text : {<<>>}]

\* response.ok
ResponseOk(status) == status >= 200 /\ status <= 299

Returned(v) == [threw |-> FALSE, error |-> "", value |-> v]
Threw(message) == [threw |-> TRUE, error |-> message, value |-> <<>>]

\* Mutant of CallGeminiAPI: the test of response.ok is left out.
CallGeminiAPI_NoStatusTest(outcome) ==
    IF outcome.kind = "reject" THEN Threw("Failed to fetch")
    ELSE IF outcome.body = "notJson" THEN Threw("Unexpected token in JSON")
    ELSE IF outcome.body \in ShortBodies \ {"noText"}
         THEN Threw("Cannot read properties of undefined")
    ELSE IF outcome.body = "noText" THEN Returned(<<>>)
    ELSE Returned(<<outcome.text>>)

\* callGeminiAPI from the point its fetch settles: it throws when fetch
\* rejects, when the status is not ok, when the body is no JSON and when the
\* path to parts[0] breaks off; otherwise it returns parts[0].text, which is
\* undefined (<<>>) when parts[0] holds no text.
CallGeminiAPI(outcome) ==
    IF outcome.kind = "reject" THEN Threw("Failed to fetch")
    ELSE IF ~ResponseOk(outcome.status)
         THEN Threw(IF outcome.status = 500 THEN "Gemini API Error: 500"
                    ELSE "Gemini API Error")
    ELSE IF outcome.body = "notJson" THEN Threw("Unexpected token in JSON")
    ELSE IF outcome.body \in ShortBodies \ {"noText"}
         THEN Threw("Cannot read properties of undefined")
    ELSE IF outcome.body = "noText" THEN Returned(<<>>)
    ELSE Returned(<<outcome.text>>)

\* processTerms from the point the fetch settles: parseAIResponse of the text
\* (on undefined its aiResponse.substring, outside the try, throws), stamped
\* with Date.now(); what callGeminiAPI threw is thrown on.
ProcessTerms(outcome, t) ==
    LET summary == CallGeminiAPI(outcome) IN
    IF summary.threw THEN summary
    ELSE IF summary.value = <<>> THEN Threw("Cannot read properties of undefined")
    ELSE Returned(<< [parsed |-> ParseAIResponse(summary.value[1]), timestamp |-> t] >>)

\* The replies handleAnalysisRequest sends.
SuccessReply(result) == [success |-> TRUE, result |-> <<result>>, error |-> ""]
FailureReply(message) == [success |-> FALSE, result |-> <<>>, error |-> message]
TooShortMessage == "Terms content is too short or empty"
NotConfiguredMessage == "Extension is not properly configured. Please contact support."

\* Mutant of ContentTooShort: length <= 100 in place of length < 100.
ContentTooShort_AtLimit(content) == content = <<>> \/ content[1] = 0 \/ content[1] <= 100

\* !request.content || request.content.length < 100
ContentTooShort(content) == content = <<>> \/ content[1] = 0 \/ content[1] < 100

\* !this.apiKey, the test of processTerms.
NotConfigured(key) == key = MissingKey

\* What lastDone records of a step of the listener or of
\* handleAnalysisRequest: the message, isOnline and the key as the step ran,
\* the remote calls issued for the message so far, what its fetch settled
\* with (if it has), the replies sent so far, what the listener returned,
\* whether the call is now suspended at its fetch, and how many calls were
\* suspended at their fetch as the step began.
Done(request, calls, outcome, replies, returned, pending) ==
    << [request |-> request, online |-> isOnline, key |-> apiKey, calls |-> calls,
        outcome |-> outcome, replies |-> replies, returned |-> returned,
        pending |-> pending, outstanding |-> Len(inFlight)] >>

\* Mutant of Suspended: a request equal to one whose fetch is outstanding is
\* folded into that one.
Suspended_Coalesced(queue, request) ==
    IF \E i \in DOMAIN queue : queue[i].request = request THEN queue
    ELSE Append(queue,
                [request |-> request, calls |-> 1,
                 prompt |-> BuildPrompt(request.content[1], request.language)])

\* The calls suspended at their fetch once handleAnalysisRequest(request) has
\* reached the await of its own fetch: processTerms builds the prompt and
\* callGeminiAPI issues one fetch, for this request alone.
Suspended(queue, request) ==
    Append(queue,
           [request |-> request, calls |-> 1,
            prompt |-> BuildPrompt(request.content[1], request.language)])

\* The onMessage listener on a message, with handleAnalysisRequest up to its
\* first suspension: a message with another action is left unanswered (the
\* listener returns false); short or missing content and a missing key are
\* answered at once with a failure; otherwise the prompt is built and the
\* fetch is issued.
onMessage(request) ==
    /\ (/\ request.action = "analyzeTerms"
        /\ ~ContentTooShort(request.content)
        /\ ~NotConfigured(apiKey))
       => Len(inFlight) < MaxInFlight
    /\ IF request.action # "analyzeTerms"
       THEN /\ lastDone' = Done(request, 0, <<>>, <<>>, FALSE, FALSE)
            /\ UNCHANGED inFlight
       ELSE IF ContentTooShort(request.content)
       THEN /\ lastDone' = Done(request, 0, <<>>,
                                <<FailureReply(TooShortMessage)>>, TRUE, FALSE)
            /\ UNCHANGED inFlight
       ELSE IF NotConfigured(apiKey)
       THEN /\ lastDone' = Done(request, 0, <<>>,
                                <<FailureReply(NotConfiguredMessage)>>, TRUE, FALSE)
            /\ UNCHANGED inFlight
       ELSE /\ inFlight' = Suspended(inFlight, request)
            /\ lastDone' = Done(request, 1, <<>>, <<>>, TRUE, TRUE)
    /\ UNCHANGED <<apiKey, cacheVars, netVars, parserVars, detectorVars, popupVars>>

\* Mutant of fetchSettles: the catch block logs the error and sends no reply.
fetchSettles_SilentOnError(id, outcome) ==
    /\ id \in DOMAIN inFlight
    /\ LET r == inFlight[id]
           result == ProcessTerms(outcome, now)
       IN lastDone' = Done(r.request, r.calls, <<outcome>>,
                           IF result.threw THEN <<>>
                           ELSE <<SuccessReply(result.value[1])>>, TRUE, FALSE)
    /\ inFlight' = [k \in 1..(Len(inFlight) - 1) |->
                      IF k < id THEN inFlight[k] ELSE inFlight[k + 1]]
    /\ UNCHANGED <<apiKey, cacheVars, netVars, parserVars, detectorVars, popupVars>>

\* The fetch of a suspended handleAnalysisRequest settles: the call runs to
\* its end and sends its one reply.
fetchSettles(id, outcome) ==
    /\ id \in DOMAIN inFlight
    /\ LET r == inFlight[id]
           result == ProcessTerms(outcome, now)
       IN lastDone' = Done(r.request, r.calls, <<outcome>>,
                           << IF result.threw THEN FailureReply(result.error)
                              ELSE SuccessReply(result.value[1]) >>, TRUE, FALSE)
    /\ inFlight' = [k \in 1..(Len(inFlight) - 1) |->
                      IF k < id THEN inFlight[k] ELSE inFlight[k + 1]]
    /\ UNCHANGED <<apiKey, cacheVars, netVars, parserVars, detectorVars, popupVars>>

(***************************************************************************)
(* NetworkManager                                                          *)
(***************************************************************************)

\* The callbacks clients register.  "f" and "g" only take the status;
\* "once" also calls removeListener on itself when it is invoked.
Callbacks == {"f", "g", "once"}

\* removeListener on the array: indexOf finds the first entry that is the
\* callback, splice(index, 1) takes that one entry out.
RemoveFirst(ls, cb) ==
    IF Positions(ls, cb) = {} THEN ls
    ELSE [k \in 1..(Len(ls) - 1) |->
            IF k < SetMin(Positions(ls, cb)) THEN ls[k] ELSE ls[k + 1]]

\* The array after the callback at index k has run.
AfterCallback(ls, k) == IF ls[k] = "once" THEN RemoveFirst(ls, ls[k]) ELSE ls

\* this.listeners.forEach(listener => listener(this.isOnline)) from index k
\* on: forEach visits the indices below the length the array had when it
\* began, in order, reads the array as it is when it gets to an index, and
\* passes over an index the array no longer has.
RECURSIVE ForEach(_, _, _, _, _)
ForEach(ls, k, len, status, calls) ==
    IF k > len THEN [listeners |-> ls, calls |-> calls]
    ELSE IF k > Len(ls) THEN ForEach(ls, k + 1, len, status, calls)
    ELSE ForEach(AfterCallback(ls, k), k + 1, len, status,
                 Append(calls, [listener |-> ls[k], status |-> status]))

\* notifyListeners(), with isOnline already set to status.
NotifyListeners(ls, status) == ForEach(ls, 1, Len(ls), status, <<>>)

\* updateOnlineStatus(status), with its notifyListeners.
updateOnlineStatus(status) ==
    /\ instance
    /\ isOnline' = status
    /\ listeners' = NotifyListeners(listeners, status).listeners
    /\ notified' = NotifyListeners(listeners, status).calls
    /\ lastCall' = << [op |-> "updateOnlineStatus", listener |-> "", status |-> status,
                       before |-> listeners] >>
    /\ lastDone' = <<>>
    /\ UNCHANGED <<instance, apiKey, inFlight, cacheVars, parserVars, detectorVars,
                   popupVars>>

\* Mutant of addListener: registering a listener also sets the flag.
addListener_SetsFlag(listener) ==
    /\ instance
    /\ Len(listeners) < MaxListeners
    /\ listeners' = Append(listeners, listener)
    /\ isOnline' = TRUE
    /\ notified' = <<>>
    /\ lastCall' = << [op |-> "addListener", listener |-> listener, status |-> isOnline,
                       before |-> listeners] >>
    /\ UNCHANGED <<instance, cacheVars, bgVars, parserVars, detectorVars, popupVars>>

\* addListener(listener)
addListener(listener) ==
    /\ instance
    /\ Len(listeners) < MaxListeners
    /\ listeners' = Append(listeners, listener)
    /\ notified' = <<>>
    /\ lastCall' = << [op |-> "addListener", listener |-> listener, status |-> isOnline,
                       before |-> listeners] >>
    /\ UNCHANGED <<isOnline, instance, cacheVars, bgVars, parserVars, detectorVars,
                   popupVars>>

\* removeListener(listener)
removeListener(listener) ==
    /\ instance
    /\ listeners' = RemoveFirst(listeners, listener)
    /\ notified' = <<>>
    /\ lastCall' = << [op |-> "removeListener", listener |-> listener, status |-> isOnline,
                       before |-> listeners] >>
    /\ UNCHANGED <<isOnline, instance, cacheVars, bgVars, parserVars, detectorVars,
                   popupVars>>

\* isNetworkAvailable(): returns the flag (recorded as status).
isNetworkAvailable ==
    /\ instance
    /\ notified' = <<>>
    /\ lastCall' = << [op |-> "isNetworkAvailable", listener |-> "", status |-> isOnline,
                       before |-> listeners] >>
    /\ UNCHANGED <<isOnline, listeners, instance, cacheVars, bgVars, parserVars,
                   detectorVars, popupVars>>

\* getInstance(): the first access constructs the instance, whose flag is
\* navigator.onLine where there is a window and true in the service worker;
\* a later access returns the instance there is.
getInstance(hasWindow, onLine) ==
    /\ instance' = TRUE
    /\ isOnline' = IF instance THEN isOnline
                   ELSE IF hasWindow THEN onLine
                   ELSE TRUE
    /\ listeners' = IF instance THEN listeners ELSE <<>>
    /\ notified' = <<>>
    /\ lastCall' = << [op |-> IF instance THEN "getInstance" ELSE "new NetworkManager",
                       listener |-> "", status |-> isOnline, before |-> listeners] >>
    /\ UNCHANGED <<cacheVars, bgVars, parserVars, detectorVars, popupVars>>

(***************************************************************************)
(* Numbers                                                                 *)
(*                                                                         *)
(* calculateConfidence works on JavaScript numbers, IEEE 754 doubles.  A   *)
(* double is held here by its sign and its magnitude in units of 2^-60;    *)
(* the magnitude, a natural number below 2^72, by three limbs of 24 bits,  *)
(* high limb first.  The values that occur lie between 2^-7 and 4, or are  *)
(* 0, so a double has at most 53 significant bits of which none is below   *)
(* the unit, and what rounding drops lies in the low limb.                 *)
(***************************************************************************)
Limb == 2^24

Carry(a) ==
    << a[1] + (a[2] + a[3] \div Limb) \div Limb,
       (a[2] + a[3] \div Limb) % Limb,
       a[3] % Limb >>

MagZero == <<0, 0, 0>>
MagAdd(a, b) == Carry(<<a[1] + b[1], a[2] + b[2], a[3] + b[3]>>)
MagTimes(k, a) == Carry(<<k * a[1], k * a[2], k * a[3]>>)
MagLess(a, b) ==
    \/ a[1] < b[1]
    \/ a[1] = b[1] /\ a[2] < b[2]
    \/ a[1] = b[1] /\ a[2] = b[2] /\ a[3] < b[3]
\* a - b, for b not above a.
MagSub(a, b) ==
    Carry(<<a[1] - b[1] - 1, a[2] - b[2] + Limb - 1, a[3] - b[3] + Limb>>)

\* The quotient of a by a small n, and whether the division left a remainder.
MagDiv(a, n) ==
    LET r1 == a[1] % n
        r2 == (r1 * Limb + a[2]) % n
    IN [mag |-> << a[1] \div n, (r1 * Limb + a[2]) \div n, (r2 * Limb + a[3]) \div n >>,
        inexact |-> (r2 * Limb + a[3]) % n # 0]

RECURSIVE BitLength(_)
BitLength(n) == IF n = 0 THEN 0 ELSE 1 + BitLength(n \div 2)

\* Round to nearest, ties to even, to 53 significant bits: the magnitude of
\* the double nearest to mag (+ a little more when inexact).
RoundToDouble(mag, inexact) ==
    LET dropped == BitLength(mag[1]) - 5
        q == 2^dropped
        rem == mag[3] % q
        up == \/ 2 * rem > q
              \/ 2 * rem = q /\ (inexact \/ (mag[3] \div q) % 2 = 1)
    IN IF dropped <= 0 THEN mag
       ELSE IF up THEN Carry(<<mag[1], mag[2], mag[3] - rem + q>>)
       ELSE <<mag[1], mag[2], mag[3] - rem>>

\* The double a decimal literal n/10 denotes (0.2 is Tenths(2)).
RoundedQuotient(q) == RoundToDouble(q.mag, q.inexact)
Tenths(n) == [neg |-> FALSE, mag |-> RoundedQuotient(MagDiv(<<n * 2^12, 0, 0>>, 10))]
DZero == [neg |-> FALSE, mag |-> MagZero]
\* The literals of calculateConfidence and analyzeElement.
Lit0_1 == Tenths(1)
Lit0_2 == Tenths(2)
Lit0_3 == Tenths(3)
Lit0_6 == Tenths(6)
Lit1_0 == Tenths(10)

\* k * x for an integer k >= 0, x + y, x < y and Math.min on doubles.
DTimes(k, x) ==
    IF k = 0 THEN DZero
    ELSE [neg |-> x.neg, mag |-> RoundToDouble(MagTimes(k, x.mag), FALSE)]
DAdd(x, y) ==
    LET exact == IF x.neg = y.neg THEN [neg |-> x.neg, mag |-> MagAdd(x.mag, y.mag)]
                 ELSE IF x.mag = y.mag THEN DZero
                 ELSE IF MagLess(x.mag, y.mag)
                 THEN [neg |-> y.neg, mag |-> MagSub(y.mag, x.mag)]
                 ELSE [neg |-> x.neg, mag |-> MagSub(x.mag, y.mag)]
    IN [neg |-> exact.neg, mag |-> RoundToDouble(exact.mag, FALSE)]
DNeg(x) == IF x.mag = MagZero THEN x ELSE [neg |-> ~x.neg, mag |-> x.mag]
DLess(x, y) ==
    IF x.neg /\ ~y.neg THEN x.mag # MagZero \/ y.mag # MagZero
    ELSE IF ~x.neg /\ y.neg THEN FALSE
    ELSE IF x.neg THEN MagLess(y.mag, x.mag)
    ELSE MagLess(x.mag, y.mag)
DMin(x, y) == IF DLess(y, x) THEN y ELSE x

(***************************************************************************)
(* TermsDetector (the content script)                                      *)
(*                                                                         *)
(* A text, as extractTextContent returns it, is given by its length and by *)
(* the indicator phrases and legal patterns its lower-case form includes.  *)
(***************************************************************************)
termsIndicators ==
    << "terms of service", "terms and conditions", "user agreement",
       "terms of use", "service agreement", "legal terms" >>
legalPatterns ==
    << "hereby agree", "privacy policy", "liability", "jurisdiction",
       "governing law", "dispute resolution", "termination" >>

\* list.filter(phrase => lowerText.includes(phrase)).length
Matches(list, included) == Cardinality({i \in 1..Len(list) : list[i] \in included})

\* if (test) confidence += x
AddWhen(test, confidence, x) == IF test THEN DAdd(confidence, x) ELSE confidence

\* calculateConfidence(text)
CalculateConfidence(text) ==
    DMin(AddWhen(text.length < 500,
           AddWhen(text.length > 5000,
             AddWhen(text.length > 1000,
               DAdd(DAdd(DZero, DTimes(Matches(termsIndicators, text.includes), Lit0_2)),
                    DTimes(Matches(legalPatterns, text.includes), Lit0_1)),
               Lit0_1),
             Lit0_1),
           DNeg(Lit0_3)),
         Lit1_0)

NotFound == [found |-> FALSE, content |-> <<>>, location |-> "", title |-> ""]

\* Mutant of AnalyzeElement: only the empty text is turned away before the
\* scoring.
AnalyzeElement_NoLengthTest(text) ==
    IF text.length = 0 THEN NotFound
    ELSE IF DLess(Lit0_6, CalculateConfidence(text))
    THEN [found |-> TRUE, content |-> <<text>>, location |-> "", title |-> ""]
    ELSE NotFound

\* analyzeElement(element), text being extractTextContent(element).
AnalyzeElement(text) ==
    IF text.length = 0 \/ text.length < 200 THEN NotFound
    ELSE IF DLess(Lit0_6, CalculateConfidence(text))
    THEN [found |-> TRUE, content |-> <<text>>, location |-> "", title |-> ""]
    ELSE NotFound

\* A text of n characters that includes the first i indicators and the first
\* p legal patterns.
TextOf(n, i, p) ==
    [length |-> n,
     includes |-> {termsIndicators[k] : k \in 1..i} \cup {legalPatterns[k] : k \in 1..p}]

\* The pages detection runs on.  modals: the elements the modal selectors
\* match, in the order the loops meet them, each with what isVisible says of
\* it and its text.  indicated: whether the title, the url or neither holds
\* an indicator.  content: what extractPageContent returns.  embedded: for
\* each content selector that matches, the text of the first element it
\* matches.  fault: the step in which a DOM call throws, if one does
\* ("body": document.body is null, so extractPageContent throws).
ShortText == TextOf(199, 6, 7)
WeakText == TextOf(500, 2, 1)
TermsText == TextOf(501, 3, 1)
ElementTexts == {ShortText, WeakText, TermsText}
Faults == {"none", "modals", "body", "embedded"}
SeqsUpTo(S, n) == UNION {[1..k -> S] : k \in 0..n}
Pages ==
    [modals : SeqsUpTo([visible : {TRUE}, text : ElementTexts]
                       \cup [visible : {FALSE}, text : {TermsText}], MaxElements),
     indicated : {"none", "title", "url"},
     content : {TextOf(500, 1, 0), TextOf(501, 0, 0)},
     embedded : SeqsUpTo(ElementTexts, MaxElements),
     fault : Faults]

\* What a step of the detection comes to: it throws, or it returns a result;
\* of detectTermsAndConditions also whether its catch block ran.
Thrown == [threw |-> TRUE, value |-> NotFound, caught |-> FALSE]
Result(v) == [threw |-> FALSE, value |-> v, caught |-> FALSE]
Caught == [threw |-> FALSE, value |-> NotFound, caught |-> TRUE]

\* The first result of the list with found, with its location set; the
\* not-found result when there is none.
RECURSIVE FirstFound(_, _, _)
FirstFound(results, i, location) ==
    IF i > Len(results) THEN NotFound
    ELSE IF results[i].found THEN [results[i] EXCEPT !.location = location]
    ELSE FirstFound(results, i + 1, location)

\* searchInModals()
SearchInModals(page) ==
    IF page.fault = "modals" THEN Thrown
    ELSE Result(FirstFound([i \in 1..Len(page.modals) |->
                               IF page.modals[i].visible
                               THEN AnalyzeElement(page.modals[i].text)
                               ELSE NotFound],
                           1, "modal"))

\* searchInPage()
SearchInPage(page) ==
    IF page.indicated # "none"
    THEN IF page.fault = "body" THEN Thrown
         ELSE IF page.content.length # 0 /\ page.content.length > 500
         THEN Result([found |-> TRUE, content |-> <<page.content>>,
                      location |-> "page", title |-> "document.title"])
         ELSE Result(NotFound)
    ELSE Result(NotFound)

\* searchEmbeddedContent()
SearchEmbeddedContent(page) ==
    IF page.fault = "embedded" THEN Thrown
    ELSE Result(FirstFound([i \in 1..Len(page.embedded) |->
                               AnalyzeElement(page.embedded[i])],
                           1, "main-content"))

\* const r = step(); if (r.found) return r; and on to the rest, which a
\* throw of the step never reaches.
OrElse(r, rest) == IF r.threw \/ r.value.found THEN r ELSE rest

\* Mutant of DetectSteps: the page strategy runs before the modal one.
DetectSteps_PageFirst(page) ==
    OrElse(SearchInPage(page),
           OrElse(SearchInModals(page),
                  OrElse(SearchEmbeddedContent(page), Result(NotFound))))

\* The try block of detectTermsAndConditions.
DetectSteps(page) ==
    OrElse(SearchInModals(page),
           OrElse(SearchInPage(page),
                  OrElse(SearchEmbeddedContent(page), Result(NotFound))))

\* try { ... } catch (error) { return { found: false } }
Catch(steps) == IF steps.threw THEN Caught ELSE steps

\* Mutant of DetectTermsAndConditions: no catch around the steps.
DetectTermsAndConditions_NoCatch(page) == DetectSteps(page)

\* detectTermsAndConditions()
DetectTermsAndConditions(page) == Catch(DetectSteps(page))

\* The texts analyzeElement is called with: the lengths around each
\* threshold, with every number of indicators and of legal patterns (an
\* empty text includes none).
TextLengths == {0, 199, 200, 499, 500, 501, 1000, 1001, 5000, 5001, 50000}
Texts ==
    {TextOf(n, i, p) : n \in TextLengths \ {0},
                       i \in 0..Len(termsIndicators), p \in 0..Len(legalPatterns)}
    \cup {TextOf(0, 0, 0)}

\* A call analyzeElement(element): the score calculateConfidence gives the
\* text, and the result.
analyzeElement ==
    /\ analyzeOut = <<>>
    /\ analyzeOut' = << [confidence |-> CalculateConfidence(elementText),
                         result |-> AnalyzeElement(elementText)] >>
    /\ UNCHANGED <<document, detectOut, elementText, cacheVars, netVars, bgVars, parserVars,
                   popupVars>>

\* The messages the content script's listener is sent, and what sendResponse
\* is called with: a detection result, or the error marker.
DetectRequests == [action : {"detectTerms", "analyzeTerms"}]
Reply(v) == [found |-> v.found, content |-> v.content, location |-> v.location,
             title |-> v.title, error |-> ""]
ErrorMarker == [found |-> FALSE, content |-> <<>>, location |-> "", title |-> "",
                error |-> "Detection failed"]

\* The listener's try block around the detection and its sendResponse.
Handled(request, result) ==
    [request |-> request, detect |-> <<result>>,
     replies |-> << IF result.threw THEN ErrorMarker ELSE Reply(result.value) >>,
     returned |-> TRUE]

\* The content script's onMessage listener on a message: for detectTerms it
\* runs the detection and answers with its result, or with the error marker
\* when the detection throws, and returns true; other messages it leaves
\* unanswered and returns false.
onDetectMessage(request) ==
    /\ detectOut' =
          IF request.action = "detectTerms"
          THEN << Handled(request, DetectTermsAndConditions(document)) >>
          ELSE << [request |-> request, detect |-> <<>>,
                   replies |-> <<>>, returned |-> FALSE] >>
    /\ UNCHANGED <<document, elementText, analyzeOut, cacheVars, netVars, bgVars, parserVars,
                   popupVars>>

(***************************************************************************)
(* Popup: handleAnalyze                                                    *)
(***************************************************************************)

NoTermsFound == "popup:errors.noTermsFound"
NoActiveTab == "No active tab found"
AnalyzeFailed == "Failed to analyze terms"
NoResponse == "Cannot read properties of undefined (reading 'success')"
NoConnection == "Could not establish connection. Receiving end does not exist."

\* !termsData?.content: no content, or the empty string.
ContentMissing(data) == data = <<>> \/ data[1] = 0

\* What chrome.tabs.query can come to: it rejects, or resolves with no tab,
\* with a tab that has no id, or with a tab that has one.
TabQueries ==
    {Threw("tabs.query failed"), Returned(<<>>)}
    \cup {Returned(<<[id |-> i, url |-> u]>>) : i \in {<<>>, <<7>>}, u \in Urls}

\* !tab?.id
TabMissing(query) == query.value = <<>> \/ query.value[1].id = <<>>

\* The replies handleAnalysisRequest sends, and what sendMessage can come to:
\* it rejects, resolves with no response, or resolves with a reply.
AnalysisReplies ==
    {SuccessReply(NthResult(n)) : n \in 1..2}
    \cup {FailureReply(m) : m \in {TooShortMessage, NotConfiguredMessage,
                                   "Analysis failed"}}
MessageOutcomes ==
    {Threw(NoConnection), Returned(<<>>)}
    \cup {Returned(<<reply>>) : reply \in AnalysisReplies}

\* object.name for a name the object may lack: <<>> is undefined.
Property(object, name) == IF name \in DOMAIN object THEN object[name] ELSE <<>>

\* The rest of the try block once sendMessage has settled: a rejection, a
\* missing response and a failure reply throw; otherwise response.data is
\* handed to setAnalysisResult.
AfterReply(outcome) ==
    IF outcome.threw THEN outcome
    ELSE IF outcome.value = <<>> THEN Threw(NoResponse)
    ELSE IF ~outcome.value[1].success
    THEN Threw(IF outcome.value[1].error = "" THEN AnalyzeFailed
               ELSE outcome.value[1].error)
    ELSE Returned(Property(outcome.value[1], "data"))

PopupState ==
    [analysisResult |-> analysisResult, error |-> error, isAnalyzing |-> isAnalyzing]

\* Mutant of Finished: setIsAnalyzing(false) at the end of the try block in
\* place of the finally block.
Finished_NoFinally(state, attempt) ==
    [analysisResult |-> IF attempt.threw THEN state.analysisResult ELSE attempt.value,
     error |-> IF attempt.threw THEN <<attempt.error>> ELSE state.error,
     isAnalyzing |-> attempt.threw /\ state.isAnalyzing]

\* The popup's state when a call has left its try statement: the catch block
\* sets the error, the try block's end sets the result, finally resets the flag.
Finished(state, attempt) ==
    [analysisResult |-> IF attempt.threw THEN state.analysisResult ELSE attempt.value,
     error |-> IF attempt.threw THEN <<attempt.error>> ELSE state.error,
     isAnalyzing |-> FALSE]

Without(queue, id) ==
    [k \in 1..(Len(queue) - 1) |-> IF k < id THEN queue[k] ELSE queue[k + 1]]

Analyzed(step, call, outcome, queue) ==
    << [step |-> step, call |-> call, outcome |-> outcome, before |-> PopupState,
        outstanding |-> Len(queue)] >>

\* handleAnalyze up to its first await.  The button is disabled from the next
\* render on, so a second call can start while the first is suspended.
handleAnalyze ==
    /\ ~ContentMissing(termsData) => Len(analyzing) < MaxCalls
    /\ IF ContentMissing(termsData)
       THEN /\ error' = <<NoTermsFound>>
            /\ lastAnalyze' = Analyzed("noContent", <<>>, <<>>, analyzing)
            /\ UNCHANGED <<isAnalyzing, analyzing>>
       ELSE /\ isAnalyzing' = TRUE
            /\ error' = <<>>
            /\ analyzing' = Append(analyzing, [at |-> "tabs", content |-> termsData,
                                               url |-> <<>>])
            /\ lastAnalyze' = Analyzed("start", <<>>, <<>>, analyzing')
    /\ UNCHANGED <<termsData, analysisResult, cacheVars, netVars, bgVars, parserVars,
                   detectorVars>>

\* chrome.tabs.query settles for a suspended call: with a tab the message is
\* sent and the call is suspended again; otherwise the call ends in its catch.
tabsQuerySettles(id, query) ==
    /\ id \in DOMAIN analyzing
    /\ analyzing[id].at = "tabs"
    /\ IF query.threw \/ TabMissing(query)
       THEN LET end == Finished(PopupState,
                                IF query.threw THEN query ELSE Threw(NoActiveTab))
            IN /\ analysisResult' = end.analysisResult
               /\ error' = end.error
               /\ isAnalyzing' = end.isAnalyzing
               /\ analyzing' = Without(analyzing, id)
               /\ lastAnalyze' = Analyzed("noTab", <<analyzing[id]>>, <<query>>,
                                          analyzing')
       ELSE /\ analyzing' = [analyzing EXCEPT ![id] =
                               [at |-> "message", content |-> analyzing[id].content,
                                url |-> <<query.value[1].url>>]]
            /\ lastAnalyze' = Analyzed("sent", <<analyzing[id]>>, <<query>>, analyzing')
            /\ UNCHANGED <<analysisResult, error, isAnalyzing>>
    /\ UNCHANGED <<termsData, cacheVars, netVars, bgVars, parserVars, detectorVars>>

\* chrome.runtime.sendMessage settles for a suspended call, which runs to its end.
messageSettles(id, outcome) ==
    /\ id \in DOMAIN analyzing
    /\ analyzing[id].at = "message"
    /\ LET end == Finished(PopupState, AfterReply(outcome))
       IN /\ analysisResult' = end.analysisResult
          /\ error' = end.error
          /\ isAnalyzing' = end.isAnalyzing
    /\ analyzing' = Without(analyzing, id)
    /\ lastAnalyze' = Analyzed("replied", <<analyzing[id]>>, <<outcome>>, analyzing')
    /\ UNCHANGED <<termsData, cacheVars, netVars, bgVars, parserVars, detectorVars>>

(***************************************************************************)
(* Specifications                                                          *)
(***************************************************************************)

\* The part of the state the StorageService does not touch.
IdlePopup ==
    /\ termsData = <<>>
    /\ isAnalyzing = FALSE
    /\ analysisResult = <<>>
    /\ error = <<>>
    /\ analyzing = <<>>
    /\ lastAnalyze = <<>>
IdleNet ==
    /\ isOnline = TRUE
    /\ listeners = <<>>
    /\ notified = <<>>
    /\ lastCall = <<>>
    /\ instance = TRUE
IdleBackground ==
    /\ apiKey = RealKey
    /\ inFlight = <<>>
    /\ lastDone = <<>>
IdleParser ==
    /\ aiResponse = <<>>
    /\ parseOut = <<>>
IdleDetector ==
    /\ document = [modals |-> <<>>, indicated |-> "none", content |-> TextOf(0, 0, 0),
                   embedded |-> <<>>, fault |-> "none"]
    /\ detectOut = <<>>
    /\ elementText = TextOf(0, 0, 0)
    /\ analyzeOut = <<>>
InitRest ==
    /\ IdleNet
    /\ IdleBackground
    /\ IdleParser
    /\ IdleDetector
    /\ IdlePopup

NextCache ==
    \/ \E d \in ClockSteps : Tick(d)
    \/ \E url \in Urls, content \in Contents, language \in Languages :
          cacheAnalysis(url, content, NthResult(nPuts + 1), language)
    \/ \E url \in Urls, language \in Languages : getCachedAnalysis(url, language)
    \/ clearOldCacheScan
    \/ clearOldCacheDelete
    \/ clearOldCacheReturn

\* The StorageService alone, called by any client in any order.
InitStorage == InitCache /\ InitRest

SpecCache == InitStorage /\ [][NextCache]_vars

\* The background service worker with its messages, its remote calls and the
\* network status events; the StorageService is there, and nothing calls it.
\* The clock stands still: the only use of it here is the stamp of a result.
InitAnalysis ==
    /\ InitCache
    /\ IdlePopup
    /\ isOnline \in BOOLEAN
    /\ listeners = <<>>
    /\ notified = <<>>
    /\ lastCall = <<>>
    /\ instance = TRUE
    /\ apiKey \in ApiKeys
    /\ inFlight = <<>>
    /\ lastDone = <<>>
    /\ IdleParser
    /\ IdleDetector

NextAnalysis ==
    \/ \E request \in Messages : onMessage(request)
    \/ \E id \in 1..MaxInFlight, outcome \in FetchOutcomes : fetchSettles(id, outcome)
    \/ \E status \in BOOLEAN : updateOnlineStatus(status)

SpecAnalysis == InitAnalysis /\ [][NextAnalysis]_vars

\* The listener and its calls alone, under the scheduling the reply claim
\* assumes: the fetch of every suspended call settles.  One page, and the
\* outcomes of the remote call that differ in how the call ends: a rejection,
\* a body that is no JSON, a text under either status.
ReplyMessages == {m \in Messages : m.url = UrlOrder[1]}
ReplyOutcomes == {o \in FetchOutcomes : o.body \in {"none", "notJson", "text"}}

InitReplies ==
    /\ InitCache
    /\ IdlePopup
    /\ IdleNet
    /\ apiKey \in ApiKeys
    /\ inFlight = <<>>
    /\ lastDone = <<>>
    /\ IdleParser
    /\ IdleDetector

NextReplies ==
    \/ \E request \in ReplyMessages : onMessage(request)
    \/ \E id \in 1..MaxInFlight, outcome \in ReplyOutcomes : fetchSettles(id, outcome)

SpecReplyFair ==
    /\ InitReplies /\ [][NextReplies]_vars
    /\ \A id \in 1..MaxInFlight :
          WF_vars(\E outcome \in ReplyOutcomes : fetchSettles(id, outcome))

\* The NetworkManager alone, from before its first access: clients get the
\* instance, register and unregister callbacks and read the flag, the
\* environment's events set the status.
InitMonitor ==
    /\ InitCache
    /\ IdlePopup
    /\ IdleBackground
    /\ IdleParser
    /\ IdleDetector
    /\ isOnline = TRUE
    /\ listeners = <<>>
    /\ notified = <<>>
    /\ lastCall = <<>>
    /\ instance = FALSE

NextMonitor ==
    \/ \E hasWindow, onLine \in BOOLEAN : getInstance(hasWindow, onLine)
    \/ \E listener \in Callbacks : addListener(listener)
    \/ \E listener \in Callbacks : removeListener(listener)
    \/ isNetworkAvailable
    \/ \E status \in BOOLEAN : updateOnlineStatus(status)

SpecMonitor == InitMonitor /\ [][NextMonitor]_vars

\* parseAIResponse alone, on any of the raw texts.
InitParser ==
    /\ InitCache
    /\ IdlePopup
    /\ IdleNet
    /\ IdleBackground
    /\ aiResponse \in RawReplies
    /\ parseOut = <<>>
    /\ IdleDetector

NextParser == parseAIResponse

SpecParser == InitParser /\ [][NextParser]_vars

\* The content script on any of the pages, sent any of the messages.
InitDetector ==
    /\ InitCache
    /\ IdlePopup
    /\ IdleNet
    /\ IdleBackground
    /\ IdleParser
    /\ document \in Pages
    /\ detectOut = <<>>
    /\ elementText = TextOf(0, 0, 0)
    /\ analyzeOut = <<>>

NextDetector == \E request \in DetectRequests : onDetectMessage(request)

SpecDetector == InitDetector /\ [][NextDetector]_vars

\* analyzeElement alone, on any of the texts.
InitConfidence ==
    /\ InitCache
    /\ IdlePopup
    /\ IdleNet
    /\ IdleBackground
    /\ IdleParser
    /\ document = [modals |-> <<>>, indicated |-> "none", content |-> TextOf(0, 0, 0),
                   embedded |-> <<>>, fault |-> "none"]
    /\ detectOut = <<>>
    /\ elementText \in Texts
    /\ analyzeOut = <<>>

NextConfidence == analyzeElement

SpecConfidence == InitConfidence /\ [][NextConfidence]_vars

\* The popup alone, once detection has run: with or without detected content,
\* with or without a cached analysis on display; the user presses Analyze and
\* the awaited calls settle in any order.
PopupStarts ==
    {[termsData |-> <<>>, analysisResult |-> <<>>, error |-> <<>>],
     [termsData |-> <<>>, analysisResult |-> <<>>, error |-> <<NoTermsFound>>],
     [termsData |-> <<0>>, analysisResult |-> <<>>, error |-> <<>>],
     [termsData |-> <<500>>, analysisResult |-> <<>>, error |-> <<>>],
     [termsData |-> <<500>>, analysisResult |-> <<NthResult(1)>>, error |-> <<>>]}

InitPopup ==
    /\ InitCache
    /\ IdleNet
    /\ IdleBackground
    /\ IdleParser
    /\ IdleDetector
    /\ \E start \in PopupStarts :
          /\ termsData = start.termsData
          /\ analysisResult = start.analysisResult
          /\ error = start.error
    /\ isAnalyzing = FALSE
    /\ analyzing = <<>>
    /\ lastAnalyze = <<>>

NextPopup ==
    \/ handleAnalyze
    \/ \E id \in 1..MaxCalls, query \in TabQueries : tabsQuerySettles(id, query)
    \/ \E id \in 1..MaxCalls, outcome \in MessageOutcomes : messageSettles(id, outcome)

SpecPopup == InitPopup /\ [][NextPopup]_vars

\* The same with the scheduling the claim assumes: an awaited promise settles.
SpecPopupFair ==
    /\ SpecPopup
    /\ \A id \in 1..MaxCalls :
          /\ WF_vars(\E query \in TabQueries : tabsQuerySettles(id, query))
          /\ WF_vars(\E outcome \in MessageOutcomes : messageSettles(id, outcome))

(***************************************************************************)
(* Result cache: the claims                                                *)
(***************************************************************************)

\* The languages cacheAnalysis has been called with for url, and among them
\* the one of the most recent call.
PutLanguages(ps, url) == {L \in Languages : <<url, L>> \in DOMAIN ps}
LastLanguage(ps, url) ==
    CHOOSE L \in PutLanguages(ps, url) :
        \A M \in PutLanguages(ps, url) : ps[<<url, M>>].n <= ps[<<url, L>>].n

\* C1: a put(k, c, r, lang) followed by get(k, lang), with no put for k in
\* between and at most 24 hours elapsed, returns an entry whose result is r.
\* (Stated over every getCachedAnalysis call that returns.)
C1_RoundTrip ==
    lastGet # <<>> =>
        LET g == lastGet[1] IN
        (/\ PutLanguages(g.puts, g.url) # {}
         /\ LastLanguage(g.puts, g.url) = g.language
         /\ g.at - g.puts[<<g.url, g.language>>].at <= day)
        => /\ g.ret # <<>>
           /\ g.ret[1].result = g.puts[<<g.url, g.language>>].result

\* C2: get returns none exactly when no entry is stored under the page key,
\* or the stored entry's language is not the requested one, or
\* now - entry.timestamp > 24h (so an entry aged exactly 24h is returned, and
\* an expired entry no sweep has removed is not); what it returns otherwise is
\* the stored entry.
C2_GetNoneCases ==
    lastGet # <<>> =>
        LET g == lastGet[1] IN
        /\ (g.ret = <<>>) <=>
              \/ g.url \notin DOMAIN g.before
              \/ g.before[g.url].language # g.language
              \/ g.at - g.before[g.url].timestamp > day
        /\ g.ret # <<>> => g.ret[1] = g.before[g.url]

\* C2's case: the entry is past its 24 hours, still stored under the key in
\* the requested language, and get returns none.
C2_Witness ==
    /\ lastGet # <<>>
    /\ lastGet[1].url \in DOMAIN analyses
    /\ analyses[lastGet[1].url].language = lastGet[1].language
    /\ now - analyses[lastGet[1].url].timestamp > day
    /\ lastGet[1].ret = <<>>

C4_EvictExpired ==
    (lastSweep # <<>> /\ ~lastSweep[1].putDuring) =>
        LET w == lastSweep[1] IN
        /\ DOMAIN w.endStore \subseteq DOMAIN w.startStore
        /\ \A k \in DOMAIN w.endStore : w.endStore[k] = w.startStore[k]
        /\ \A k \in DOMAIN w.startStore :
              /\ w.startNow - w.startStore[k].timestamp > day
                    => k \notin DOMAIN w.endStore
              /\ w.endNow - w.startStore[k].timestamp <= day
                    => k \in DOMAIN w.endStore
        /\ (w.afterClean /\ w.startNow = w.endNow) => w.endStore = w.startStore

\* C4's case: a second run right after a run that deleted an old entry and
\* kept a fresh one.
C4_Witness ==
    /\ lastSweep # <<>>
    /\ ~lastSweep[1].putDuring
    /\ lastSweep[1].afterClean
    /\ lastSweep[1].prevDeleted > 0
    /\ lastSweep[1].startNow = lastSweep[1].endNow
    /\ lastSweep[1].endStore # <<>>

\* C5: whatever cacheAnalysis calls interleave with a running clearOldCache,
\* the entry a delete of clearOldCache removes is older than 24h at the
\* moment of the delete.
C5_DeletesOnlyOld ==
    (lastDelete # <<>> /\ lastDelete[1].removed # <<>>) =>
        lastDelete[1].at - lastDelete[1].removed[1].timestamp > day

(***************************************************************************)
(* Analysis requests: the claims                                           *)
(***************************************************************************)

\* An analyzeTerms message whose content is a string of at least 100
\* characters.
LongEnough(request) ==
    /\ request.action = "analyzeTerms"
    /\ request.content # <<>>
    /\ request.content[1] >= 100

\* A step that ended its request with exactly one reply, a failure.
EndsInFailure(d) ==
    /\ ~d.pending
    /\ Len(d.replies) = 1
    /\ ~d.replies[1].success
    /\ d.replies[1].error # ""
    /\ d.replies[1].result = <<>>

\* C6: an analyzeTerms request whose content is missing or shorter than 100
\* characters is answered {success: false, error} with no remote call issued
\* for it; content of exactly 100 characters (or more) is not turned away by
\* the length guard; so every outstanding remote call is for content of at
\* least 100 characters.
C6_MinLengthGuard ==
    /\ \A i \in DOMAIN inFlight : LongEnough(inFlight[i].request)
    /\ (lastDone # <<>> /\ lastDone[1].request.action = "analyzeTerms") =>
          LET d == lastDone[1] IN
          IF LongEnough(d.request)
          THEN \A i \in DOMAIN d.replies : d.replies[i].error # TooShortMessage
          ELSE EndsInFailure(d) /\ d.calls = 0

\* C6's case: content of 99 characters, answered with a failure, no remote
\* call.
C6_Witness ==
    /\ lastDone # <<>>
    /\ lastDone[1].request.action = "analyzeTerms"
    /\ lastDone[1].request.content = <<99>>
    /\ EndsInFailure(lastDone[1])
    /\ lastDone[1].calls = 0

\* C7: when the listener handles an analyzeTerms request with content of at
\* least 100 characters while isOnline is false, the request ends at once in
\* a failure and no remote call is issued for it.  (Stated for a real key, so
\* that the only guard left to stop the call is the offline one.)
C7_OfflineGuard ==
    (/\ lastDone # <<>>
     /\ LongEnough(lastDone[1].request)
     /\ lastDone[1].outcome = <<>>
     /\ lastDone[1].key = RealKey
     /\ ~lastDone[1].online)
    => EndsInFailure(lastDone[1]) /\ lastDone[1].calls = 0

\* C8: when an analysis request for page P and language L has ended with a
\* success reply carrying R, the cache holds an entry for P with language L
\* and result R.  (Stated for a real key, the one the backend answers.)
C8_SuccessIsCached ==
    (/\ lastDone # <<>>
     /\ lastDone[1].key = RealKey
     /\ Len(lastDone[1].replies) = 1
     /\ lastDone[1].replies[1].success)
    => /\ lastDone[1].request.url \in DOMAIN analyses
       /\ analyses[lastDone[1].request.url].language = lastDone[1].request.language
       /\ <<analyses[lastDone[1].request.url].result>> = lastDone[1].replies[1].result

\* C9: with the API key missing or the placeholder, no remote call is ever
\* outstanding, and every analysis request with content of at least 100
\* characters ends at once with the configuration error.
C9_ConfigurationGuard ==
    (apiKey = MissingKey \/ IsPlaceholder(apiKey)) =>
        /\ inFlight = <<>>
        /\ (lastDone # <<>> /\ LongEnough(lastDone[1].request)) =>
              /\ lastDone[1].calls = 0
              /\ lastDone[1].replies = <<FailureReply(NotConfiguredMessage)>>

\* The remote-call failures: fetch rejects, the status is not 2xx, or the
\* body holds no candidates[0].content.parts[0].
RemoteFailure(outcome) ==
    \/ outcome.kind = "reject"
    \/ outcome.status < 200
    \/ outcome.status > 299
    \/ outcome.body \in {"notJson", "noCandidates", "emptyCandidates",
                         "noContent", "noParts", "emptyParts"}

\* C10: a request whose remote call failed ends with exactly one reply,
\* {success: false, error}, after exactly one remote call, and is no longer
\* outstanding.
C10_RemoteFailureFails ==
    (/\ lastDone # <<>>
     /\ lastDone[1].outcome # <<>>
     /\ RemoteFailure(lastDone[1].outcome[1]))
    => /\ EndsInFailure(lastDone[1])
       /\ lastDone[1].calls = 1

\* C10's case: status 500 with a body that holds a well-formed text; the
\* reply is the failure naming the status.
C10_Witness ==
    /\ lastDone # <<>>
    /\ lastDone[1].outcome # <<>>
    /\ lastDone[1].outcome[1].status = 500
    /\ lastDone[1].outcome[1].body = "text"
    /\ lastDone[1].replies = <<FailureReply("Gemini API Error: 500")>>
    /\ lastDone[1].calls = 1

\* C11: no request has more than one remote call issued for it, and a request
\* that passes the local guards (analyzeTerms, content of at least 100
\* characters, online, a real key) has exactly one; requests are not
\* coalesced: a request handled while others are outstanding, equal ones
\* included, adds a remote call of its own, and every call that settles gives
\* its own request exactly one reply and leaves the others outstanding.
C11_OneRemoteCallPerRequest ==
    /\ \A i \in DOMAIN inFlight : inFlight[i].calls = 1
    /\ lastDone # <<>> =>
          LET d == lastDone[1] IN
          /\ d.calls <= 1
          /\ (LongEnough(d.request) /\ d.online /\ d.key = RealKey) => d.calls = 1
          /\ d.pending =>
                /\ d.calls = 1
                /\ Len(inFlight) = d.outstanding + 1
                /\ inFlight[Len(inFlight)].request = d.request
          /\ d.outcome # <<>> =>
                /\ d.calls = 1
                /\ Len(d.replies) = 1
                /\ Len(inFlight) = d.outstanding - 1

\* C11's case: of two outstanding requests for the same content, language and
\* page one has just been answered, and the other is still outstanding.
C11_Witness ==
    /\ lastDone # <<>>
    /\ lastDone[1].outcome # <<>>
    /\ lastDone[1].outstanding = 2
    /\ Len(lastDone[1].replies) = 1
    /\ Len(inFlight) = 1
    /\ inFlight[1].request = lastDone[1].request
    /\ inFlight[1].calls = 1

\* The degraded result the claims describe for a raw text: the first 1000
\* characters as the summary, risk medium, the one placeholder key point, no
\* red flags.
IsDegradedOf(parsed, text) ==
    /\ Len(parsed.summary) = (IF Len(text) < 1000 THEN Len(text) ELSE 1000)
    /\ \A i \in 1..Len(parsed.summary) : parsed.summary[i] = text[i]
    /\ parsed.riskLevel = "medium"
    /\ parsed.keyPoints = <<"Analysis completed - see summary for details">>
    /\ parsed.redFlags = <<>>

\* A raw text with no "{" before a "}".
NoBracePair(text) ==
    ~\E i, j \in 1..Len(text) : i < j /\ text[i] = "{" /\ text[j] = "}"

\* C12: whatever the remote-call step hands to parseAIResponse (the value at
\* candidates[0].content.parts[0].text of a 2xx reply), the parser does not
\* raise: the request ends with a success reply carrying a result; and when
\* the text holds no brace pair, or the matched substring does not decode,
\* the result is the degraded one.  (Stated for a real key, the one the
\* backend answers.)
C12_ParserNeverRaises ==
    (/\ lastDone # <<>>
     /\ lastDone[1].outcome # <<>>
     /\ lastDone[1].key = RealKey
     /\ ~RemoteFailure(lastDone[1].outcome[1]))
    => LET d == lastDone[1]
           text == d.outcome[1].text
       IN /\ Len(d.replies) = 1
          /\ d.replies[1].success
          /\ d.replies[1].result # <<>>
          /\ (NoBracePair(text) \/ ~JsonDecodes(JsonMatch(text)[1]))
                => IsDegradedOf(d.replies[1].result[1].parsed, text)

(***************************************************************************)
(* parseAIResponse: the claims                                             *)
(***************************************************************************)

\* The first n entries of a list, in their order.
IsFirstOf(kept, items, n) ==
    /\ Len(kept) = (IF Len(items) < n THEN Len(items) ELSE n)
    /\ \A i \in 1..Len(kept) : kept[i] = items[i]

\* C13: every result parseAIResponse returns, on the structured and on the
\* degraded path, has riskLevel low, medium or high, at most 8 keyPoints and
\* at most 5 redFlags; on the structured path riskLevel is the decoded one
\* when that is exactly one of the three tokens and medium otherwise, and
\* the keyPoints and redFlags kept of a decoded list are its first 8 and its
\* first 5, in their order.
C13_ResultBounds ==
    parseOut # <<>> =>
        LET r == parseOut[1].result
            m == parseOut[1].match
        IN /\ r.riskLevel \in {"low", "medium", "high"}
           /\ Len(r.keyPoints) <= 8
           /\ Len(r.redFlags) <= 5
           /\ (m # <<>> /\ JsonDecodes(m[1])) =>
                 LET o == JsonParse(m[1]) IN
                 /\ IF /\ "riskLevel" \in DOMAIN o
                       /\ o["riskLevel"].text \in {<<"low">>, <<"medium">>, <<"high">>}
                    THEN <<r.riskLevel>> = o["riskLevel"].text
                    ELSE r.riskLevel = "medium"
                 /\ ("keyPoints" \in DOMAIN o /\ o["keyPoints"].isArray)
                       => IsFirstOf(r.keyPoints, o["keyPoints"].items, 8)
                 /\ ("redFlags" \in DOMAIN o /\ o["redFlags"].isArray)
                       => IsFirstOf(r.redFlags, o["redFlags"].items, 5)

\* C13's case: a decoded object with riskLevel "HIGH", 9 keyPoints and 6
\* redFlags; the result has risk medium, 8 keyPoints and 5 redFlags.
C13_Witness ==
    /\ parseOut # <<>>
    /\ aiResponse = <<"{", "r:HIGH", "k:[9]", "f:[6]", "}">>
    /\ parseOut[1].result.riskLevel = "medium"
    /\ parseOut[1].result.keyPoints = SubSeq(Items, 1, 8)
    /\ parseOut[1].result.redFlags = SubSeq(Items, 1, 5)

\* C14: when the raw text holds a "{" before a "}", the substring handed to
\* the decoder runs from the first "{" of the text to its last "}"; and when
\* the text is prefix + J + suffix, J a well-formed object, the prefix
\* without "{" and the suffix without "}", the parser returns the normalised
\* fields of J and not the degraded result.
C14_TolerantExtraction ==
    parseOut # <<>> =>
        \A a, b \in 1..Len(aiResponse) :
            (/\ a < b
             /\ aiResponse[a] = "{"
             /\ aiResponse[b] = "}"
             /\ \A i \in 1..(a - 1) : aiResponse[i] # "{"
             /\ \A i \in (b + 1)..Len(aiResponse) : aiResponse[i] # "}")
            => /\ parseOut[1].match = <<SubSeq(aiResponse, a, b)>>
               /\ JsonDecodes(SubSeq(aiResponse, a, b)) =>
                     /\ parseOut[1].result
                          = NormalisedResult(JsonParse(SubSeq(aiResponse, a, b)))
                     /\ parseOut[1].result # DegradedResult(aiResponse)

\* C14's case: an object with a nested object in it, after a prefix that
\* holds a "}" and before a suffix that holds a "{"; its fields are returned.
C14_Witness ==
    /\ parseOut # <<>>
    /\ aiResponse = <<"x", "}", "{", "n:", "{", "k:[9]", "}", "r:low", "}", "{", "x">>
    /\ parseOut[1].match = <<SubSeq(aiResponse, 3, 9)>>
    /\ parseOut[1].result.riskLevel = "low"
    /\ parseOut[1].result.keyPoints = <<"Analysis completed">>

(***************************************************************************)
(* NetworkManager: the claims                                              *)
(***************************************************************************)

\* C15: an updateOnlineStatus(status) call invokes every entry the registry
\* holds at the moment of the call exactly once, in registration order, with
\* the new status, whatever addListener and removeListener calls came before
\* and whatever removals the listeners make while they are notified.
C15_NotifyEveryListener ==
    (lastCall # <<>> /\ lastCall[1].op = "updateOnlineStatus") =>
        /\ isOnline = lastCall[1].status
        /\ notified = [i \in 1..Len(lastCall[1].before) |->
                          [listener |-> lastCall[1].before[i],
                           status |-> lastCall[1].status]]

\* C16: addListener(f) for an f already registered leaves the registry as it
\* was, so that f is called once per notification; after removeListener(f)
\* the registry holds no f (a second call removes nothing more), a call for
\* an f that is not registered leaves the registry as it was, and the other
\* entries and their order are untouched.
C16_IdempotentRegistry ==
    lastCall # <<>> =>
        LET c == lastCall[1] IN
        /\ (c.op = "addListener" /\ Positions(c.before, c.listener) # {})
              => listeners = c.before
        /\ c.op = "removeListener"
              => listeners = SelectSeq(c.before, LAMBDA x : x # c.listener)
        /\ c.op = "updateOnlineStatus"
              => \A i, j \in DOMAIN notified :
                    notified[i].listener = notified[j].listener => i = j

(***************************************************************************)
(* TermsDetector: the claims                                               *)
(***************************************************************************)

\* What the strategies have to work on in the document: the visible modal
\* candidates that pass analyzeElement, a title or url that holds an
\* indicator together with page content of more than 500 characters, and
\* the embedded elements that pass analyzeElement.
PassingModals ==
    {i \in 1..Len(document.modals) :
        document.modals[i].visible /\ AnalyzeElement(document.modals[i].text).found}
PageSucceeds == document.indicated # "none" /\ document.content.length > 500
PassingEmbedded ==
    {i \in 1..Len(document.embedded) : AnalyzeElement(document.embedded[i]).found}

C18_DetectionNeverRaises ==
    (detectOut # <<>> /\ detectOut[1].request.action = "detectTerms") =>
        /\ detectOut[1].detect # <<>>
        /\ ~detectOut[1].detect[1].threw
        /\ DetectSteps(document).threw => detectOut[1].detect[1].value = NotFound
        /\ Len(detectOut[1].replies) = 1
        /\ \/ detectOut[1].replies[1] = Reply(detectOut[1].detect[1].value)
           \/ detectOut[1].replies[1] = ErrorMarker
        /\ detectOut[1].returned

\* C18's case: no modal passes, the title holds an indicator and
\* document.body is null, so the page step throws, while an embedded element
\* would pass; the answer is {found: false}.
C18_Witness ==
    /\ detectOut # <<>>
    /\ detectOut[1].request.action = "detectTerms"
    /\ document.fault = "body"
    /\ document.indicated = "title"
    /\ PassingModals = {}
    /\ PassingEmbedded # {}
    /\ detectOut[1].detect = <<Caught>>
    /\ detectOut[1].replies = <<Reply(NotFound)>>

\* C19: for every text of at least 200 characters the score
\* calculateConfidence returns lies in [0, 1].
C19_ConfidenceInUnitInterval ==
    (analyzeOut # <<>> /\ elementText.length >= 200) =>
        /\ ~DLess(analyzeOut[1].confidence, DZero)
        /\ ~DLess(Lit1_0, analyzeOut[1].confidence)

\* The score in tenths, in exact arithmetic: 2 per indicator, 1 per legal
\* pattern, 1 more above 1000 characters, 1 more above 5000, 3 less below 500.
ExactTenths(text) ==
    2 * Matches(termsIndicators, text.includes)
    + Matches(legalPatterns, text.includes)
    + (IF text.length > 1000 THEN 1 ELSE 0)
    + (IF text.length > 5000 THEN 1 ELSE 0)
    - (IF text.length < 500 THEN 3 ELSE 0)

\* C20: a text of at least 200 characters is accepted by analyzeElement
\* exactly when its score in exact arithmetic is strictly above 0.6; a text
\* whose exact score is 0.6 is rejected.
C20_ExactThreshold ==
    (analyzeOut # <<>> /\ elementText.length >= 200) =>
        (analyzeOut[1].result.found <=> ExactTenths(elementText) > 6)

\* C21: for every text shorter than 200 characters analyzeElement returns
\* not-found, however many indicators and legal patterns the text includes.
C21_ShortTextNotFound ==
    (analyzeOut # <<>> /\ elementText.length < 200) =>
        /\ ~analyzeOut[1].result.found
        /\ analyzeOut[1].result.content = <<>>

\* C21's case: a text of 199 characters that includes every indicator and
\* every legal pattern, so that its score is above 0.6; it is not found.
C21_Witness ==
    /\ analyzeOut # <<>>
    /\ elementText.length = 199
    /\ Matches(termsIndicators, elementText.includes) = Len(termsIndicators)
    /\ Matches(legalPatterns, elementText.includes) = Len(legalPatterns)
    /\ DLess(Lit0_6, analyzeOut[1].confidence)
    /\ ~analyzeOut[1].result.found

\* C22: addListener, removeListener, isNetworkAvailable and getInstance after
\* the first access leave the flag as it was before the call, and after an
\* updateOnlineStatus with its notification the flag is the status of the
\* event: the flag changes in an environment-driven event only.
C22_FlagChangesByEventsOnly ==
    lastCall # <<>> =>
        /\ lastCall[1].op \in {"addListener", "removeListener",
                               "isNetworkAvailable", "getInstance"}
              => isOnline = lastCall[1].status
        /\ lastCall[1].op = "updateOnlineStatus" => isOnline = lastCall[1].status

\* C22's case: after an offline event, with a listener registered, a second
\* listener is added and the flag is still false.
C22_Witness ==
    /\ lastCall # <<>>
    /\ lastCall[1].op = "addListener"
    /\ lastCall[1].before # <<>>
    /\ ~lastCall[1].status
    /\ ~isOnline

\* The step just made sent the one reply of a request whose fetch has settled.
Answered(request) ==
    /\ lastDone # <<>>
    /\ lastDone[1].request = request
    /\ lastDone[1].outcome # <<>>
    /\ ~lastDone[1].pending
    /\ Len(lastDone[1].replies) = 1

\* C24: a message with another action is left without a reply; an
\* analyzeTerms request has no reply while its fetch is outstanding and
\* exactly one once its call has ended, whether on short content, on a
\* result or on an error; and a request whose fetch is outstanding is
\* eventually answered.
C24_ExactlyOneReply ==
    /\ [](lastDone # <<>> =>
            IF lastDone[1].request.action # "analyzeTerms"
            THEN lastDone[1].replies = <<>> /\ ~lastDone[1].returned
            ELSE /\ lastDone[1].returned
                 /\ Len(lastDone[1].replies) = IF lastDone[1].pending THEN 0 ELSE 1)
    /\ \A request \in {m \in ReplyMessages : LongEnough(m)} :
          (\E i \in DOMAIN inFlight : inFlight[i].request = request)
              ~> Answered(request)

\* C24's case: a call whose fetch ended in an error has sent its one reply,
\* a failure, while another call is still suspended.
C24_Witness ==
    /\ lastDone # <<>>
    /\ Answered(lastDone[1].request)
    /\ ~lastDone[1].replies[1].success
    /\ lastDone[1].outstanding > 0

\* C25: after a getCachedAnalysis call, whatever it returned, the store holds
\* the entries it held before the call, with the same contents; and an entry
\* leaves the store or changes only in a step in which clearOldCache deletes
\* it or cacheAnalysis puts an entry under its key.
C25_GetReadOnly ==
    /\ [](lastGet # <<>> =>
            /\ lastGet[1].after = lastGet[1].before
            /\ analyses = lastGet[1].before)
    /\ [][\A url \in DOMAIN analyses :
            StoreGet(analyses', url) # StoreGet(analyses, url) =>
                \/ lastDelete' # <<>> /\ lastDelete'[1].url = url
                \/ nPuts' = nPuts + 1 /\ url \in DOMAIN analyses']_vars

\* C25's case: a read has found an entry in the requested language older than
\* the TTL, has returned null, and the entry is still stored.
C25_Witness ==
    /\ lastGet # <<>>
    /\ lastGet[1].entry # <<>>
    /\ lastGet[1].entry[1].language = lastGet[1].language
    /\ IsOld(lastGet[1].entry[1], lastGet[1].at)
    /\ lastGet[1].ret = <<>>
    /\ StoreGet(analyses, lastGet[1].url) = lastGet[1].entry

(***************************************************************************)
(* Popup claims                                                            *)
(***************************************************************************)

\* The reply a finished handleAnalyze call was given, if it was given one.
RepliedWith(reply) ==
    /\ lastAnalyze # <<>>
    /\ lastAnalyze[1].step = "replied"
    /\ lastAnalyze[1].outcome[1] = Returned(<<reply>>)

\* C23: after a success reply carrying result R the popup's analysisResult is
\* R and its error, cleared at the start of the call, is still cleared; after
\* a failure reply analysisResult is what it was and error is the reply's
\* error message.
C23_ReplyDisplayed ==
    \A reply \in AnalysisReplies :
        RepliedWith(reply) =>
            IF reply.success
            THEN /\ analysisResult = reply.result
                 /\ lastAnalyze[1].before.error = <<>> => error = <<>>
            ELSE /\ analysisResult = lastAnalyze[1].before.analysisResult
                 /\ error = <<reply.error>>

\* C26: isAnalyzing is true only while a handleAnalyze call is suspended; a
\* call that leaves its try statement, on a failed tab query, on a failure
\* reply, on a rejection or on a success reply, leaves isAnalyzing false; a
\* call made without detected content leaves isAnalyzing as it was and
\* suspends nothing; and isAnalyzing, once true, is eventually false.
C26_AnalyzingWhileOutstanding ==
    /\ [](isAnalyzing => analyzing # <<>>)
    /\ [](lastAnalyze # <<>> =>
            /\ lastAnalyze[1].step \in {"noTab", "replied"} => ~isAnalyzing
            /\ lastAnalyze[1].step = "noContent" =>
                  /\ isAnalyzing = lastAnalyze[1].before.isAnalyzing
                  /\ lastAnalyze[1].outstanding = Len(analyzing))
    /\ (isAnalyzing ~> ~isAnalyzing)

\* C26's case: a call that set isAnalyzing has ended on a failure reply and
\* isAnalyzing is false again.
C26_Witness ==
    /\ \E reply \in AnalysisReplies : RepliedWith(reply) /\ ~reply.success
    /\ lastAnalyze[1].before.isAnalyzing
    /\ ~isAnalyzing
    /\ analyzing = <<>>

=============================================================================
